---- MODULE Spec2Model ----
(***************************************************************************)
(* Provisioning of an openbook-v2 test instance: the market factory        *)
(* (createMarket), the configurator that runs it concurrently for a batch  *)
(* of mints (configureOpenbookV2), the per-user registrar                  *)
(* (configureMarketForUser) and the order-book filler (fillOrderBook).     *)
(*                                                                         *)
(* Every action is the resolution of one awaited promise together with    *)
(* the synchronous continuation that runs up to the next await: the        *)
(* single-threaded event loop runs such a continuation without             *)
(* interruption, and between two awaits any other invocation may run.      *)
(* A transaction takes effect on the ledger, or is rejected as a whole,    *)
(* at the step that resolves it.                                           *)
(***************************************************************************)
EXTENDS Integers, Sequences, FiniteSets, TLC

\* ------------------------------------------------------------- bounds
MaxMints == 3      \* longest mint list handed to configureOpenbookV2
MaxDraw == 1       \* Math.random() * max is drawn from 0..MaxDraw
MaxFaults == 1     \* rejections the environment may cause (funds, network)
NumUsers == 2      \* users 1..NumUsers
MaxRegCalls == 2   \* calls of configureMarketForUser
MaxOrders == 2     \* nbOrders is drawn from 0..MaxOrders
MaxFillCalls == 1  \* calls of fillOrderBook

\* ------------------------------------------------------------- state
VARIABLES
    oracles,      \* ledger: stub oracle address -> price it holds
    storage,      \* ledger: raw storage accounts allocated by createAccount
    markets,      \* ledger: market accounts made by the create-market instruction
    faults,       \* environment rejections so far
    bpc,          \* configureOpenbookV2: "idle", "running", "resolved", "rejected"
    mints,        \* its argument
    cm,           \* the createMarket invocations of the batch, by index
    order,        \* indices of the invocations that returned, in completion order
    batchResult,  \* the Market[] the batch resolved with
    indexers,     \* ledger: open-orders indexer accounts
    ooAccounts,   \* ledger: open-orders accounts
    book,         \* ledger: the orders the program accepted
    reg,          \* the current or last configureMarketForUser invocation
    regCalls,     \* how many there were
    userOO,       \* user.open_orders, as the caller keeps it for each user
    fill,         \* the current or last fillOrderBook invocation
    fillCalls,    \* how many there were
    usersSeen     \* how many users the calls have named so far

batchVars == <<bpc, mints, cm, order, batchResult>>
batchLedger == <<oracles, storage, markets>>
userLedger == <<indexers, ooAccounts, book>>
userVars == <<reg, regCalls, userOO, fill, fillCalls, usersSeen>>
vars == <<batchLedger, faults, batchVars, userLedger, userVars>>

\* ------------------------------------------------------------- keys and addresses
\* A keypair is named by the call that generated or loaded it; generated keys
\* are statistically unique, so distinct calls give distinct names.
publicKey(kp) == <<"pk", kp>>
secretKey(kp) == <<"sk", kp>>

anchorProviderKeypair == <<"authority", 0>>
KeypairGenerate(site, n) == <<site, n>>

\* PublicKey.findProgramAddressSync(seeds, openbookProgramId)
StubOracleAddress(adminPk, mint) == <<"StubOracle", adminPk, mint>>
MarketAuthorityAddress(marketPub) == <<"Market", marketPub>>
getAssociatedTokenAddressSync(mint, owner) == <<"ata", owner, mint>>

\* ------------------------------------------------------------- price
\* A price is held in hundredths: 1.0 is 100.
MinPrice == 100
\* Math.floor(Math.random() * max) + 100, an integer
getRandomInt(max) ==
    {r + MinPrice : r \in 0..(IF max - 1 < MaxDraw THEN max - 1 ELSE MaxDraw)}
\* Number.prototype.toFixed(2) of an integer: its digits and two decimals
toFixed2(n) == <<n, 0>>
\* parseFloat of such a string
parseFloat(s) == s[1] * 100 + s[2]
PriceArg == 1000
Prices == {parseFloat(toFixed2(p)) : p \in getRandomInt(PriceArg)}
\* stubOracleCreate(1.0)
InitialOraclePrice == 100

\* ------------------------------------------------------------- the program (ledger rules)
StubOracleCreateAccepted(addr) == addr \notin DOMAIN oracles
StubOracleSetAccepted(addr) == addr \in DOMAIN oracles
CreateMarketAccepted(marketPub) == \A m \in markets : m.market # marketPub

\* what an awaited call may meet besides the program's own verdict
EnvOutcomes == IF faults < MaxFaults THEN {TRUE, FALSE} ELSE {TRUE}

\* how a transaction ends: "failed" for a reason of the environment (funds,
\* transport), "refused" by the program, or "ok"
Outcome(env, accepted) ==
    IF ~env THEN "failed" ELSE IF accepted THEN "ok" ELSE "refused"
Rejected(tx) == tx.st \in {"failed", "refused"}

\* connection.getAccountInfo(address) for an oracle address: the account, or none
getAccountInfoFound(addr) == <<InitialOraclePrice>>
getAccountInfoAbsent(addr) == <<>>
getAccountInfo(addr) == IF addr \in DOMAIN oracles THEN <<oracles[addr]>> ELSE <<>>
\* the test "== null" of lines 74 and 86
createAlways(info) == TRUE
isNull(info) == info = <<>>

\* ------------------------------------------------------------- createMarket locals
adminKpParam(c) == c.admin
adminKp(c) == anchorProviderKeypair
oracleAId(c) == StubOracleAddress(publicKey(adminKp(c)), c.baseMint)
oracleBId(c) == StubOracleAddress(publicKey(adminKp(c)), c.quoteMint)
marketPk(c) == KeypairGenerate("market", c.index)
marketAuthoritySharedKey(c) == MarketAuthorityAddress(publicKey(adminKp(c)))
marketAuthority(c) == MarketAuthorityAddress(publicKey(marketPk(c)))
baseVault(c) == getAssociatedTokenAddressSync(c.baseMint, marketAuthority(c))
quoteVault(c) == getAssociatedTokenAddressSync(c.quoteMint, marketAuthority(c))
marketName(c) == <<"index ", c.index, " wrt 0">>

\* createAccount(connection, payer, size, owner) of ../general/solana_utils:
\* a new storage account under a fresh address
createAccountAddress(c, what) == publicKey(KeypairGenerate(what, c.index))

Tx(kind, target, existed) ==
    [kind |-> kind, target |-> target, st |-> "pending", existed |-> existed]
Submit(c, tx) == [c EXCEPT !.log = Append(@, tx)]
NotAwaited(c, st) == c
Settle(c, st) == [c EXCEPT !.log[Len(c.log)].st = st]

NoAddr == <<"none">>

MarketDescriptor(c) ==
    [admin |-> secretKey(adminKp(c)),
     name |-> marketName(c),
     bids |-> c.bids,
     asks |-> c.asks,
     event_heap |-> c.eventHeap,
     base_mint |-> c.baseMint,
     base_vault |-> baseVault(c),
     market_index |-> c.index,
     market_pk |-> publicKey(marketPk(c)),
     oracle_a |-> oracleAId(c),
     oracle_b |-> oracleBId(c),
     quote_mint |-> c.quoteMint,
     quote_vault |-> quoteVault(c),
     price |-> c.price]

\* ------------------------------------------------------------- Promise.all
Indices == DOMAIN cm
AllDone(c) == \A j \in DOMAIN c : c[j].pc = "done"

PromiseAllByCompletion(c, ord) == [j \in 1..Len(ord) |-> c[ord[j]].result[1]]
PromiseAll(c, ord) == [j \in 1..Len(ord) |-> c[j - 1].result[1]]

\* an invocation threw: its promise rejects, and Promise.all rejects with the first
ThrowCancels(i, c) ==
    /\ cm' = [j \in DOMAIN cm |->
                IF j = i THEN [c EXCEPT !.pc = "failed"]
                ELSE IF cm[j].pc = "done" THEN cm[j]
                ELSE [cm[j] EXCEPT !.pc = "failed"]]
    /\ bpc' = IF bpc = "running" THEN "rejected" ELSE bpc
    /\ UNCHANGED <<order, batchResult, mints, userLedger, userVars>>
ThrowCaught(i, c) ==
    /\ cm' = [cm EXCEPT ![i] = c]
    /\ UNCHANGED <<bpc, order, batchResult, mints, userLedger, userVars>>
Throw(i, c) ==
    /\ cm' = [cm EXCEPT ![i] = [c EXCEPT !.pc = "failed"]]
    /\ bpc' = IF bpc = "running" THEN "rejected" ELSE bpc
    /\ UNCHANGED <<order, batchResult, mints, userLedger, userVars>>

\* an invocation moved to its next await
Goto(i, c, pc) ==
    /\ cm' = [cm EXCEPT ![i] = [c EXCEPT !.pc = pc]]
    /\ UNCHANGED <<bpc, order, batchResult, mints, userLedger, userVars>>

\* an invocation returned its descriptor
Return(i, c) ==
    LET cm2 == [cm EXCEPT ![i] = [c EXCEPT !.pc = "done",
                                           !.result = <<MarketDescriptor(c)>>]]
        ord2 == Append(order, i)
    IN  /\ cm' = cm2
        /\ order' = ord2
        /\ UNCHANGED <<mints, userLedger, userVars>>
        /\ IF AllDone(cm2) /\ bpc = "running"
             THEN /\ bpc' = "resolved"
                  /\ batchResult' = PromiseAll(cm2, ord2)
             ELSE UNCHANGED <<bpc, batchResult>>

\* ------------------------------------------------------------- configureOpenbookV2
\* Mint lists up to the naming of the mints (a mint is an opaque public key):
\* the quote mint is called 1 and every further mint is one already in the
\* list or the next unused number.
RECURSIVE MaxOf(_, _)
MaxOf(ms, n) == IF n = 0 THEN 0
                ELSE IF ms[n] > MaxOf(ms, n - 1) THEN ms[n] ELSE MaxOf(ms, n - 1)
MintLists ==
    {ms \in UNION {[1..n -> 1..MaxMints] : n \in 1..MaxMints} :
        \A k \in 1..Len(ms) : ms[k] <= MaxOf(ms, k - 1) + 1}

NewInvocation(index, mint, quoteMint, admin, price) ==
    [index |-> index, baseMint |-> mint, quoteMint |-> quoteMint, admin |-> admin,
     price |-> price, pc |-> "getA",
     asks |-> NoAddr, bids |-> NoAddr, eventHeap |-> NoAddr,
     log |-> <<>>, result |-> <<>>, startedAfter |-> {}]

configureOpenbookV2 ==
    /\ bpc = "idle"
    /\ \E ms \in MintLists :
         LET quoteMint == ms[1]
             admin == KeypairGenerate("admin", 0)
             K == Len(ms) - 1
         IN  \E ps \in [0..(K - 1) -> Prices] :
               /\ mints' = ms
               /\ cm' = [j \in 0..(K - 1) |->
                           NewInvocation(j, ms[j + 2], quoteMint, admin, ps[j])]
               /\ bpc' = IF K = 0 THEN "resolved" ELSE "running"
    /\ UNCHANGED <<oracles, storage, markets, faults, order, batchResult>>
    /\ UNCHANGED <<userLedger, userVars>>

\* ------------------------------------------------------------- createMarket
\* line 74: the answer to getAccountInfo(oracleAId)
GetOracleA(i) ==
    /\ i \in Indices /\ cm[i].pc = "getA"
    /\ \E env \in EnvOutcomes :
         LET c == [cm[i] EXCEPT !.startedAfter =
                      {k \in Indices : cm[k].pc \in {"done", "failed"}}]
         IN
         /\ faults' = IF env THEN faults ELSE faults + 1
         /\ IF ~env THEN Throw(i, c)
            ELSE IF isNull(getAccountInfo(oracleAId(c)))
              THEN Goto(i, Submit(c, Tx("stubOracleCreate", oracleAId(c), FALSE)),
                        "createA")
              ELSE Goto(i, c, "getB")
    /\ UNCHANGED <<oracles, storage, markets>>

\* lines 75-84
CreateOracleA(i) ==
    /\ i \in Indices /\ cm[i].pc = "createA"
    /\ \E env \in EnvOutcomes :
         LET c == cm[i]
             ok == env /\ StubOracleCreateAccepted(oracleAId(c))
         IN
         /\ faults' = IF env THEN faults ELSE faults + 1
         /\ IF ok
              THEN /\ oracles' = [a \in DOMAIN oracles \cup {oracleAId(c)} |->
                                    IF a = oracleAId(c) THEN InitialOraclePrice
                                    ELSE oracles[a]]
                   /\ Goto(i, Settle(c, Outcome(env, ok)), "getB")
              ELSE /\ UNCHANGED oracles
                   /\ Throw(i, Settle(c, Outcome(env, ok)))
    /\ UNCHANGED <<storage, markets>>

\* line 86: the answer to getAccountInfo(oracleBId)
GetOracleB(i) ==
    /\ i \in Indices /\ cm[i].pc = "getB"
    /\ \E env \in EnvOutcomes :
         LET c == cm[i] IN
         /\ faults' = IF env THEN faults ELSE faults + 1
         /\ IF ~env THEN Throw(i, c)
            ELSE IF isNull(getAccountInfo(oracleBId(c)))
              THEN Goto(i, Submit(c, Tx("stubOracleCreate", oracleBId(c), FALSE)),
                        "createB")
              ELSE Goto(i, Submit(c, Tx("stubOracleSet", oracleAId(c), FALSE)), "setA")
    /\ UNCHANGED <<oracles, storage, markets>>

\* lines 87-96, then the submission of lines 99-106
CreateOracleB(i) ==
    /\ i \in Indices /\ cm[i].pc = "createB"
    /\ \E env \in EnvOutcomes :
         LET c == cm[i]
             ok == env /\ StubOracleCreateAccepted(oracleBId(c))
         IN
         /\ faults' = IF env THEN faults ELSE faults + 1
         /\ IF ok
              THEN /\ oracles' = [a \in DOMAIN oracles \cup {oracleBId(c)} |->
                                    IF a = oracleBId(c) THEN InitialOraclePrice
                                    ELSE oracles[a]]
                   /\ Goto(i, Submit(Settle(c, Outcome(env, ok)),
                                     Tx("stubOracleSet", oracleAId(c), FALSE)), "setA")
              ELSE /\ UNCHANGED oracles
                   /\ Throw(i, Settle(c, Outcome(env, ok)))
    /\ UNCHANGED <<storage, markets>>

\* lines 99-106, then the submission of lines 108-115
SetOracleA(i) ==
    /\ i \in Indices /\ cm[i].pc = "setA"
    /\ \E env \in EnvOutcomes :
         LET c == cm[i]
             ok == env /\ StubOracleSetAccepted(oracleAId(c))
         IN
         /\ faults' = IF env THEN faults ELSE faults + 1
         /\ IF ok
              THEN /\ oracles' = [oracles EXCEPT ![oracleAId(c)] = c.price]
                   /\ Goto(i, Submit(Settle(c, Outcome(env, ok)),
                                     Tx("stubOracleSet", oracleBId(c), FALSE)), "setB")
              ELSE /\ UNCHANGED oracles
                   /\ Throw(i, Settle(c, Outcome(env, ok)))
    /\ UNCHANGED <<storage, markets>>

\* lines 108-115, then the call of createAccount of lines 117-122
SetOracleB(i) ==
    /\ i \in Indices /\ cm[i].pc = "setB"
    /\ \E env \in EnvOutcomes :
         LET c == cm[i]
             ok == env /\ StubOracleSetAccepted(oracleBId(c))
         IN
         /\ faults' = IF env THEN faults ELSE faults + 1
         /\ IF ok
              THEN /\ oracles' = [oracles EXCEPT ![oracleBId(c)] = c.price]
                   /\ Goto(i, Submit(Settle(c, Outcome(env, ok)),
                                     Tx("createAccount",
                                        createAccountAddress(c, "asks"), FALSE)),
                           "asks")
              ELSE /\ UNCHANGED oracles
                   /\ Throw(i, Settle(c, Outcome(env, ok)))
    /\ UNCHANGED <<storage, markets>>

\* the storage account that createAccount allocated for `what`
Allocate(addr) == storage' = storage \cup {addr}

\* lines 117-122, then the call of lines 123-128
CreateAsks(i) ==
    /\ i \in Indices /\ cm[i].pc = "asks"
    /\ \E env \in EnvOutcomes :
         LET c == cm[i]
             addr == createAccountAddress(c, "asks")
         IN
         /\ faults' = IF env THEN faults ELSE faults + 1
         /\ IF env
              THEN /\ Allocate(addr)
                   /\ Goto(i, Submit([Settle(c, Outcome(env, TRUE)) EXCEPT !.asks = addr],
                                     Tx("createAccount",
                                        createAccountAddress(c, "bids"), FALSE)),
                           "bids")
              ELSE /\ UNCHANGED storage
                   /\ Throw(i, Settle(c, Outcome(env, TRUE)))
    /\ UNCHANGED <<oracles, markets>>

\* lines 123-128, then the call of lines 129-134
CreateBids(i) ==
    /\ i \in Indices /\ cm[i].pc = "bids"
    /\ \E env \in EnvOutcomes :
         LET c == cm[i]
             addr == createAccountAddress(c, "bids")
         IN
         /\ faults' = IF env THEN faults ELSE faults + 1
         /\ IF env
              THEN /\ Allocate(addr)
                   /\ Goto(i, Submit([Settle(c, Outcome(env, TRUE)) EXCEPT !.bids = addr],
                                     Tx("createAccount",
                                        createAccountAddress(c, "eventHeap"), FALSE)),
                           "eventHeap")
              ELSE /\ UNCHANGED storage
                   /\ Throw(i, Settle(c, Outcome(env, TRUE)))
    /\ UNCHANGED <<oracles, markets>>

\* lines 129-134, then lines 136-202 up to the submission of the
\* create-market instruction
CreateEventHeap(i) ==
    /\ i \in Indices /\ cm[i].pc = "eventHeap"
    /\ \E env \in EnvOutcomes :
         LET c == cm[i]
             addr == createAccountAddress(c, "eventHeap")
         IN
         /\ faults' = IF env THEN faults ELSE faults + 1
         /\ IF env
              THEN /\ Allocate(addr)
                   /\ Goto(i, Submit([Settle(c, Outcome(env, TRUE)) EXCEPT !.eventHeap = addr],
                                     Tx("createMarket", publicKey(marketPk(c)), FALSE)),
                           "market")
              ELSE /\ UNCHANGED storage
                   /\ Throw(i, Settle(c, Outcome(env, TRUE)))
    /\ UNCHANGED <<oracles, markets>>

\* the accounts of the create-market instruction, lines 173-195
MarketAccounts(c) ==
    [market |-> publicKey(marketPk(c)),
     marketAuthority |-> marketAuthority(c),
     bids |-> c.bids, asks |-> c.asks, eventHeap |-> c.eventHeap,
     marketBaseVault |-> baseVault(c), marketQuoteVault |-> quoteVault(c),
     baseMint |-> c.baseMint, quoteMint |-> c.quoteMint,
     oracleA |-> oracleAId(c), oracleB |-> oracleBId(c),
     name |-> marketName(c)]

\* lines 160-202, then the return of lines 204-219
CreateMarketInstruction(i) ==
    /\ i \in Indices /\ cm[i].pc = "market"
    /\ \E env \in EnvOutcomes :
         LET c == cm[i]
             ok == env /\ CreateMarketAccepted(publicKey(marketPk(c)))
         IN
         /\ faults' = IF env THEN faults ELSE faults + 1
         /\ IF ok
              THEN /\ markets' = markets \cup {MarketAccounts(c)}
                   /\ Return(i, Settle(c, Outcome(env, ok)))
              ELSE /\ UNCHANGED markets
                   /\ Throw(i, Settle(c, Outcome(env, ok)))
    /\ UNCHANGED <<oracles, storage>>

\* ------------------------------------------------------------- configureMarketForUser
Users == 1..NumUsers
\* Users up to their naming (a user is an opaque keypair): a call names a
\* user an earlier call named, or the next one.
NextUsers == {u \in Users : u <= usersSeen + 1}
Seen(u) == usersSeen' = IF u > usersSeen THEN u ELSE usersSeen
userKeypair(u) == <<"user", u>>

OpenOrdersIndexerAddress(userPub) == <<"OpenOrdersIndexer", userPub>>
OpenOrdersAddress(userPub, indexBytes) == <<"OpenOrders", userPub, indexBytes>>
\* BN.toBuffer("le", 4)
toBufferLE4(n) ==
    <<n % 256, (n \div 256) % 256, (n \div 65536) % 256, (n \div 16777216) % 256>>

accountIndexZeroBased(i) == i
accountIndex(i) == i + 1
openOrdersIndexer(user) == OpenOrdersIndexerAddress(publicKey(user))
openOrders(user, i) ==
    OpenOrdersAddress(publicKey(user), toBufferLE4(accountIndex(i)))

\* the program: both instructions initialise their account
CreateOpenOrdersIndexerAccepted(addr) == addr \notin indexers
CreateOpenOrdersAccountAccepted(indexer, addr) ==
    /\ indexer \in indexers
    /\ \A a \in ooAccounts : a.address # addr

\* the Market[] a caller may hand over: the batch's descriptors, all or some,
\* in any order
InjectiveLists(n) ==
    {f \in UNION {[1..k -> 1..n] : k \in 0..n} :
        \A a, b \in DOMAIN f : a # b => f[a] # f[b]}
MarketLists ==
    {[k \in DOMAIN f |-> batchResult[f[k]]] : f \in InjectiveLists(Len(batchResult))}

IdleReg ==
    [pc |-> "idle", user |-> userKeypair(0), markets |-> <<>>, i |-> 0,
     openOrdersAccs |-> <<>>, log |-> <<>>, result |-> <<>>,
     before |-> <<{}, {}, {}>>]

\* the caller makes one call at a time, and makes none before the batch has
\* handed it the Market[]
NoCallActive ==
    /\ reg.pc \in {"idle", "done", "failed"}
    /\ fill.pc \in {"idle", "done", "failed"}
    /\ cm = <<>>

CreateOpenOrdersAccountTx(r) ==
    [kind |-> "createOpenOrdersAccount", target |-> openOrders(r.user, r.i),
     st |-> "pending", existed |-> FALSE,
     market |-> r.markets[r.i + 1].market_pk, index |-> accountIndex(r.i)]

\* the loop of lines 95-126 from its test on: the next submission, or the return
RegLoop(r) ==
    IF r.i < Len(r.markets)
      THEN [Submit(r, CreateOpenOrdersAccountTx(r)) EXCEPT !.pc = "account"]
      ELSE [r EXCEPT !.pc = "done", !.result = <<r.openOrdersAccs>>]

\* an awaited rpc() of the registrar threw
RegRejectedGoesOn(r, st) == RegLoop(Settle(r, st))
RegRejected(r, st) == [Settle(r, st) EXCEPT !.pc = "failed"]

\* the caller keeps the handles a call returned as user.open_orders
KeepOpenOrders(r) ==
    IF r.pc = "done"
      THEN userOO' = [userOO EXCEPT ![r.user[2]] = r.result[1]]
      ELSE UNCHANGED userOO

\* lines 79-92, up to the submission of createOpenOrdersIndexer. The users
\* are registered before the books are filled.
configureMarketForUser ==
    /\ bpc = "resolved" /\ NoCallActive /\ regCalls < MaxRegCalls
    /\ fillCalls = 0
    /\ \E u \in NextUsers, ms \in MarketLists :
         LET user == userKeypair(u) IN
         /\ Seen(u)
         /\ reg' = [pc |-> "indexer", user |-> user, markets |-> ms, i |-> 0,
                 openOrdersAccs |-> <<>>,
                 log |-> <<Tx("createOpenOrdersIndexer", openOrdersIndexer(user),
                              openOrdersIndexer(user) \in indexers)>>,
                 result |-> <<>>,
                 before |-> <<indexers, ooAccounts, book>>]
    /\ regCalls' = regCalls + 1
    /\ UNCHANGED <<batchLedger, faults, batchVars, userLedger, userOO, fill, fillCalls>>

\* lines 83-92, then the loop up to its first submission
CreateOpenOrdersIndexer ==
    /\ reg.pc = "indexer"
    /\ \E env \in EnvOutcomes :
         LET ok == env /\ CreateOpenOrdersIndexerAccepted(openOrdersIndexer(reg.user))
             r2 == IF ok THEN RegLoop(Settle(reg, "ok"))
                   ELSE RegRejected(reg, Outcome(env, ok))
         IN
         /\ faults' = IF env THEN faults ELSE faults + 1
         /\ indexers' = IF ok THEN indexers \cup {openOrdersIndexer(reg.user)}
                        ELSE indexers
         /\ reg' = r2
         /\ KeepOpenOrders(r2)
    /\ UNCHANGED <<batchLedger, batchVars, ooAccounts, book, regCalls, fill, fillCalls,
                   usersSeen>>

\* lines 108-125, then the loop up to its next submission or the return
CreateOpenOrdersAccount ==
    /\ reg.pc = "account"
    /\ \E env \in EnvOutcomes :
         LET addr == openOrders(reg.user, reg.i)
             market == reg.markets[reg.i + 1]
             ok == env /\ CreateOpenOrdersAccountAccepted(
                              openOrdersIndexer(reg.user), addr)
             pushed == [Settle(reg, "ok") EXCEPT
                          !.openOrdersAccs =
                              Append(@, [market |-> market.market_pk,
                                         open_orders |-> addr]),
                          !.i = @ + 1]
             r2 == IF ok THEN RegLoop(pushed) ELSE RegRejected(reg, Outcome(env, ok))
         IN
         /\ faults' = IF env THEN faults ELSE faults + 1
         /\ ooAccounts' = IF ok
                            THEN ooAccounts \cup
                                 {[address |-> addr, market |-> market.market_pk,
                                   owner |-> publicKey(reg.user)]}
                            ELSE ooAccounts
         /\ reg' = r2
         /\ KeepOpenOrders(r2)
    /\ UNCHANGED <<batchLedger, batchVars, indexers, book, regCalls, fill, fillCalls,
                   usersSeen>>

\* ------------------------------------------------------------- fillOrderBook
\* lines 142-152
BidArgs(i) ==
    [side |-> "bid", priceLots |-> 1000 - 1 - i, maxBaseLots |-> 10,
     maxQuoteLotsIncludingFees |-> 1000000, clientOrderId |-> i, limit |-> 255]

\* lines 180-190
AskArgsSharedIds(i, nbOrders) ==
    [side |-> "ask", priceLots |-> 1000 + 1 + i, maxBaseLots |-> 10000,
     maxQuoteLotsIncludingFees |-> 1000000, clientOrderId |-> i, limit |-> 255]
AskArgsFromN(i, nbOrders) ==
    [side |-> "ask", priceLots |-> 1000 + 1 + i, maxBaseLots |-> 10000,
     maxQuoteLotsIncludingFees |-> 1000000, clientOrderId |-> i + nbOrders,
     limit |-> 255]
AskArgs(i, nbOrders) ==
    [side |-> "ask", priceLots |-> 1000 + 1 + i, maxBaseLots |-> 10000,
     maxQuoteLotsIncludingFees |-> 1000000, clientOrderId |-> i + nbOrders + 1,
     limit |-> 255]

\* user.open_orders[marketData.market_index]: the element, or none (undefined)
OpenOrdersOfNext(open_orders, marketData) ==
    IF marketData.market_index + 2 \in DOMAIN open_orders
      THEN <<open_orders[marketData.market_index + 2]>>
      ELSE <<>>
OpenOrdersOf(open_orders, marketData) ==
    IF marketData.market_index + 1 \in DOMAIN open_orders
      THEN <<open_orders[marketData.market_index + 1]>>
      ELSE <<>>

PlaceOrderTx(f, args, vault) ==
    [kind |-> "placeOrder", target |-> f.marketData.market_pk,
     st |-> "pending", existed |-> FALSE, args |-> args,
     openOrdersAccount |-> OpenOrdersOf(f.open_orders, f.marketData)[1].open_orders,
     marketVault |-> vault]

\* the second loop, lines 175-212, from its test on
AskLoop(f) ==
    IF f.i < f.nbOrders
      THEN IF OpenOrdersOf(f.open_orders, f.marketData) = <<>>
             THEN [f EXCEPT !.pc = "failed"]
             ELSE [Submit(f, PlaceOrderTx(f, AskArgs(f.i, f.nbOrders),
                                          f.marketData.base_vault))
                     EXCEPT !.pc = "ask"]
      ELSE [f EXCEPT !.pc = "done"]

\* the first loop, lines 137-173, from its test on
BidLoop(f) ==
    IF f.i < f.nbOrders
      THEN IF OpenOrdersOf(f.open_orders, f.marketData) = <<>>
             THEN [f EXCEPT !.pc = "failed"]
             ELSE [Submit(f, PlaceOrderTx(f, BidArgs(f.i), f.marketData.quote_vault))
                     EXCEPT !.pc = "bid"]
      ELSE AskLoop([f EXCEPT !.i = 0])

\* an awaited rpc() of the filler threw
BidRejectedSkipsToAsks(f) == AskLoop([Settle(f, "failed") EXCEPT !.i = 0])
BidRejected(f) == [Settle(f, "failed") EXCEPT !.pc = "failed"]
AskRejected(f) == [Settle(f, "failed") EXCEPT !.pc = "failed"]

IdleFill ==
    [pc |-> "idle", user |-> userKeypair(0), open_orders |-> <<>>,
     marketData |-> <<>>, nbOrders |-> 0, i |-> 0, log |-> <<>>,
     before |-> {}]

\* the order the program books for an accepted placeOrder
BookedOrder(tx) ==
    [market |-> tx.target, openOrdersAccount |-> tx.openOrdersAccount,
     side |-> tx.args.side, priceLots |-> tx.args.priceLots,
     clientOrderId |-> tx.args.clientOrderId]

\* the call, up to its first submission
fillOrderBook ==
    /\ bpc = "resolved" /\ NoCallActive /\ fillCalls < MaxFillCalls
    /\ \E u \in NextUsers, k \in DOMAIN batchResult, n \in 0..MaxOrders :
         /\ Seen(u)
         /\ fill' = BidLoop([pc |-> "call", user |-> userKeypair(u),
                          open_orders |-> userOO[u],
                          marketData |-> batchResult[k], nbOrders |-> n,
                          i |-> 0, log |-> <<>>, before |-> book])
    /\ fillCalls' = fillCalls + 1
    /\ UNCHANGED <<batchLedger, faults, batchVars, userLedger, reg, regCalls, userOO>>

\* lines 154-172, then the loops up to the next submission
PlaceBid ==
    /\ fill.pc = "bid"
    /\ \E env \in EnvOutcomes :
         LET tx == fill.log[Len(fill.log)] IN
         /\ faults' = IF env THEN faults ELSE faults + 1
         /\ book' = IF env THEN book \cup {BookedOrder(tx)} ELSE book
         /\ fill' = IF env THEN BidLoop([Settle(fill, "ok") EXCEPT !.i = @ + 1])
                    ELSE BidRejected(fill)
    /\ UNCHANGED <<batchLedger, batchVars, indexers, ooAccounts, reg, regCalls,
                   userOO, fillCalls, usersSeen>>

\* lines 191-211, then the loop up to the next submission or the return
PlaceAsk ==
    /\ fill.pc = "ask"
    /\ \E env \in EnvOutcomes :
         LET tx == fill.log[Len(fill.log)] IN
         /\ faults' = IF env THEN faults ELSE faults + 1
         /\ book' = IF env THEN book \cup {BookedOrder(tx)} ELSE book
         /\ fill' = IF env THEN AskLoop([Settle(fill, "ok") EXCEPT !.i = @ + 1])
                    ELSE AskRejected(fill)
    /\ UNCHANGED <<batchLedger, batchVars, indexers, ooAccounts, reg, regCalls,
                   userOO, fillCalls, usersSeen>>

\* ------------------------------------------------------------- specifications
Init ==
    /\ oracles = <<>>
    /\ storage = {}
    /\ markets = {}
    /\ faults = 0
    /\ bpc = "idle"
    /\ mints = <<>>
    /\ cm = <<>>
    /\ order = <<>>
    /\ batchResult = <<>>
    /\ indexers = {}
    /\ ooAccounts = {}
    /\ book = {}
    /\ reg = IdleReg
    /\ regCalls = 0
    /\ userOO = [u \in Users |-> <<>>]
    /\ fill = IdleFill
    /\ fillCalls = 0
    /\ usersSeen = 0

Next ==
    \/ configureOpenbookV2
    \/ \E i \in Indices : GetOracleA(i)
    \/ \E i \in Indices : CreateOracleA(i)
    \/ \E i \in Indices : GetOracleB(i)
    \/ \E i \in Indices : CreateOracleB(i)
    \/ \E i \in Indices : SetOracleA(i)
    \/ \E i \in Indices : SetOracleB(i)
    \/ \E i \in Indices : CreateAsks(i)
    \/ \E i \in Indices : CreateBids(i)
    \/ \E i \in Indices : CreateEventHeap(i)
    \/ \E i \in Indices : CreateMarketInstruction(i)

Spec == Init /\ [][Next]_vars

\* The state a batch that ran without rejection leaves: the invocation as it
\* is when it returns, and the descriptors of the whole batch.
ReturnedInvocation(c) ==
    [c EXCEPT !.asks = createAccountAddress(c, "asks"),
              !.bids = createAccountAddress(c, "bids"),
              !.eventHeap = createAccountAddress(c, "eventHeap"),
              !.pc = "done"]

ReturnedBatch(ms, ps) ==
    [j \in 1..(Len(ms) - 1) |->
        ReturnedInvocation(NewInvocation(j - 1, ms[j + 1], ms[1],
                                         KeypairGenerate("admin", 0), ps[j - 1]))]

\* each oracle holds the price of one of the invocations that set it
OraclesAfter(rb) ==
    LET addrs == {oracleAId(rb[j]) : j \in DOMAIN rb}
                 \cup {oracleBId(rb[j]) : j \in DOMAIN rb}
    IN  {f \in [addrs -> Prices] :
           \A a \in addrs : \E j \in DOMAIN rb :
              /\ a \in {oracleAId(rb[j]), oracleBId(rb[j])}
              /\ f[a] = rb[j].price}

InitUser ==
    /\ \E ms \in MintLists : \E ps \in [0..(Len(ms) - 2) -> Prices] :
         LET rb == ReturnedBatch(ms, ps) IN
         /\ mints = ms
         /\ batchResult = [j \in DOMAIN rb |-> MarketDescriptor(rb[j])]
         /\ oracles \in OraclesAfter(rb)
         /\ storage = UNION {{rb[j].asks, rb[j].bids, rb[j].eventHeap} : j \in DOMAIN rb}
         /\ markets = {MarketAccounts(rb[j]) : j \in DOMAIN rb}
    /\ faults = 0
    /\ bpc = "resolved"
    /\ cm = <<>>
    /\ order = <<>>
    /\ indexers = {}
    /\ ooAccounts = {}
    /\ book = {}
    /\ reg = IdleReg
    /\ regCalls = 0
    /\ userOO = [u \in Users |-> <<>>]
    /\ fill = IdleFill
    /\ fillCalls = 0
    /\ usersSeen = 0

\* every resolved batch of Spec is one of the initial states of SpecUser
ResolvedIsInitUser ==
    bpc = "resolved" =>
        LET ps == [j \in Indices |-> cm[j].price]
            rb == ReturnedBatch(mints, ps)
        IN  /\ batchResult = [j \in DOMAIN rb |-> MarketDescriptor(rb[j])]
            /\ oracles \in OraclesAfter(rb)
            /\ storage = UNION {{rb[j].asks, rb[j].bids, rb[j].eventHeap} :
                                  j \in DOMAIN rb}
            /\ markets = {MarketAccounts(rb[j]) : j \in DOMAIN rb}
            /\ faults = 0

NextUser ==
    \/ configureMarketForUser
    \/ CreateOpenOrdersIndexer
    \/ CreateOpenOrdersAccount
    \/ fillOrderBook
    \/ PlaceBid
    \/ PlaceAsk

SpecUser == InitUser /\ [][NextUser]_vars

\* The whole run: the batch, then the calls for the users. When the batch has
\* resolved, the await of configureOpenbookV2 hands the caller the Market[];
\* the invocations of the batch are over and only their result is kept.
BatchReturned ==
    /\ bpc = "resolved" /\ cm # <<>>
    /\ cm' = <<>>
    /\ order' = <<>>
    /\ UNCHANGED <<bpc, mints, batchResult, batchLedger, faults, userLedger, userVars>>

NextRun ==
    \/ Next
    \/ BatchReturned
    \/ NextUser

SpecRun == Init /\ [][NextRun]_vars

\* Every submitted transaction and every existence query is answered: each
\* invocation's pending await resolves. The calls themselves are the
\* caller's to make or not.
Step(i) ==
    \/ GetOracleA(i) \/ CreateOracleA(i) \/ GetOracleB(i) \/ CreateOracleB(i)
    \/ SetOracleA(i) \/ SetOracleB(i) \/ CreateAsks(i) \/ CreateBids(i)
    \/ CreateEventHeap(i) \/ CreateMarketInstruction(i)
Answered ==
    /\ \A i \in 0..(MaxMints - 2) : WF_vars(Step(i))
    /\ WF_vars(CreateOpenOrdersIndexer \/ CreateOpenOrdersAccount)
    /\ WF_vars(PlaceBid \/ PlaceAsk)

SpecRunFair == SpecRun /\ Answered

\* ------------------------------------------------------------- properties
TxsOf(c, kind, addr) ==
    {k \in DOMAIN c.log : c.log[k].kind = kind /\ c.log[k].target = addr}
BatchSize == Len(mints) - 1

\* C1: in a concurrent batch no stubOracleCreate reaches the ledger when its
\* oracle address already holds data, that is, the program refuses none as a
\* re-initialisation and no invocation fails on a cross-market collision.
DistinctMints == \A a, b \in DOMAIN mints : a # b => mints[a] # mints[b]
C1_NoCreateCollision ==
    DistinctMints =>
        \A i \in Indices : \A k \in DOMAIN cm[i].log :
            cm[i].log[k].kind = "stubOracleCreate" => cm[i].log[k].st # "refused"

\* C3: two createMarket invocations in sequence (the second starts after the
\* first returned, nothing else touching the ledger, no fault of the
\* environment) that each use one oracle address once: together they submit
\* at most one stubOracleCreate and exactly two stubOracleSet for it, and
\* neither is rejected.
InSequence(i, j) ==
    /\ i # j
    /\ i \in cm[j].startedAfter
    /\ cm[j].pc \in {"done", "failed"}
    /\ faults = 0
    /\ \A l \in Indices \ {i, j} : cm[l].log = <<>>
SharedOracles(i, j) ==
    IF cm[i].baseMint = cm[i].quoteMint \/ cm[j].baseMint = cm[j].quoteMint
      THEN {}
      ELSE {oracleAId(cm[i]), oracleBId(cm[i])}
           \cap {oracleAId(cm[j]), oracleBId(cm[j])}
C3_SequentialOracleSetup ==
    \A i, j \in Indices : InSequence(i, j) =>
        /\ cm[i].pc = "done" /\ cm[j].pc = "done"
        /\ \A a \in SharedOracles(i, j) :
             /\ Cardinality(TxsOf(cm[i], "stubOracleCreate", a))
                + Cardinality(TxsOf(cm[j], "stubOracleCreate", a)) <= 1
             /\ Cardinality(TxsOf(cm[i], "stubOracleSet", a))
                + Cardinality(TxsOf(cm[j], "stubOracleSet", a)) = 2
C3_Witness ==
    \E i, j \in Indices : /\ InSequence(i, j)
                          /\ SharedOracles(i, j) # {}
                          /\ \E a \in SharedOracles(i, j) :
                               /\ TxsOf(cm[i], "stubOracleCreate", a) # {}
                               /\ TxsOf(cm[j], "stubOracleCreate", a) = {}

\* C6: a batch that resolves returns one descriptor per non-quote mint, the
\* j-th with market_index j, base mint mints[j+1] and the quote mint,
\* whatever the order of completion.
C6_DescriptorsInRequestOrder ==
    bpc = "resolved" =>
        /\ Len(batchResult) = BatchSize
        /\ \A j \in 0..(BatchSize - 1) :
             /\ batchResult[j + 1].market_index = j
             /\ batchResult[j + 1].base_mint = mints[j + 2]
             /\ batchResult[j + 1].quote_mint = mints[1]
        /\ \A a, b \in DOMAIN batchResult :
             a # b => batchResult[a].market_index # batchResult[b].market_index
C6_Witness ==
    /\ bpc = "resolved" /\ BatchSize = 2 /\ order = <<1, 0>>
    /\ mints[2] # mints[3]

\* C7: two descriptors of one batch differ in market_pk, in their bids, asks
\* and event_heap addresses and in their base and quote vaults; within a
\* descriptor bids, asks and event_heap differ pairwise.
BookAccounts(d) == {d.bids, d.asks, d.event_heap}
C7_DistinctAddresses ==
    bpc = "resolved" =>
        /\ \A a, b \in DOMAIN batchResult : a # b =>
             LET d == batchResult[a]
                 e == batchResult[b]
             IN  /\ d.market_pk # e.market_pk
                 /\ BookAccounts(d) \cap BookAccounts(e) = {}
                 /\ d.base_vault # e.base_vault
                 /\ d.quote_vault # e.quote_vault
        /\ \A a \in DOMAIN batchResult : Cardinality(BookAccounts(batchResult[a])) = 3
C7_Witness ==
    /\ bpc = "resolved" /\ BatchSize = 2
    /\ batchResult[1].base_mint = batchResult[2].base_mint

\* C8 as stated: the admin field of a returned descriptor is the secret of
\* the market identity key, the key behind market_pk.
C8_AdminIsMarketSecret ==
    \A i \in Indices : cm[i].pc = "done" =>
        cm[i].result[1].admin = secretKey(marketPk(cm[i]))
\* C8 as amended: the admin field is the secret of the provider's keypair,
\* which createMarket takes as admin in place of its adminKp argument; it is
\* the same in every descriptor and is not the market identity's secret.
C8_AdminIsProviderSecret ==
    \A i \in Indices : cm[i].pc = "done" =>
        /\ cm[i].result[1].admin = secretKey(anchorProviderKeypair)
        /\ cm[i].result[1].admin # secretKey(marketPk(cm[i]))
        /\ cm[i].result[1].market_pk = publicKey(marketPk(cm[i]))
C8_Witness ==
    \E i \in Indices : cm[i].pc = "done" /\ cm[i].admin # anchorProviderKeypair

\* C9: a rejection at any step of createMarket ends the invocation: the
\* rejected transaction is its last, it returns no descriptor and never moves
\* again, the rejection changes nothing on the ledger, and no account is
\* ever removed, so what its earlier steps created stays.
StillOnLedger(tx) ==
    CASE tx.kind = "stubOracleCreate" -> tx.target \in DOMAIN oracles
      [] tx.kind = "createAccount" -> tx.target \in storage
      [] tx.kind = "createMarket" -> \E m \in markets : m.market = tx.target
      [] OTHER -> TRUE
C9_State(i) ==
    /\ \A k \in DOMAIN cm[i].log :
         /\ Rejected(cm[i].log[k]) =>
              k = Len(cm[i].log) /\ cm[i].pc = "failed" /\ cm[i].result = <<>>
         /\ cm[i].log[k].st = "ok" => StillOnLedger(cm[i].log[k])
    /\ cm[i].pc = "failed" => cm[i].result = <<>>
C9_RejectionIsFatal ==
    [][\A i \in Indices :
         /\ C9_State(i)
         /\ cm[i].pc = "failed" => cm'[i] = cm[i]
         /\ (cm[i].pc # "failed" /\ cm'[i].pc = "failed") =>
              /\ Len(cm'[i].log) = Len(cm[i].log)
              /\ <<oracles, storage, markets>>' = <<oracles, storage, markets>>]_vars
C9_Witness ==
    \E i \in Indices :
        /\ cm[i].pc = "failed"
        /\ Len(cm[i].log) >= 4
        /\ cm[i].log[Len(cm[i].log)].kind = "createMarket"
        /\ cm[i].log[Len(cm[i].log)].st = "failed"
        /\ cm[i].eventHeap \in storage

\* C2: a fillOrderBook call that ends without rejection has submitted exactly
\* 2N placeOrder transactions, N bids with price 1000-1-i and client id i,
\* then N asks with price 1000+1+i and client id i+N+1; at no time is an ask
\* submitted before all N bids are confirmed.
IsBid(tx, i) ==
    /\ tx.kind = "placeOrder" /\ tx.args.side = "bid"
    /\ tx.args.priceLots = 999 - i /\ tx.args.clientOrderId = i
IsAsk(tx, i, n) ==
    /\ tx.kind = "placeOrder" /\ tx.args.side = "ask"
    /\ tx.args.priceLots = 1001 + i /\ tx.args.clientOrderId = i + n + 1
C2_LadderInOrder ==
    LET n == fill.nbOrders
        log == fill.log
    IN  /\ fill.pc = "done" =>
             /\ Len(log) = 2 * n
             /\ \A k \in 1..n : IsBid(log[k], k - 1) /\ IsAsk(log[n + k], k - 1, n)
        /\ \A k \in DOMAIN log :
             log[k].args.side = "ask" =>
                 /\ k > n
                 /\ \A b \in 1..n : log[b].args.side = "bid" /\ log[b].st = "ok"
C2_Witness ==
    /\ fill.pc = "done" /\ fill.nbOrders = 2 /\ Len(fill.log) = 4
    /\ fill.log[4].args.clientOrderId = 4

\* C4: a configureMarketForUser call made when the user's indexer already
\* exists is rejected at createOpenOrdersIndexer: it submits nothing else,
\* returns no handles and leaves the ledger as it was at the call.
SecondCall == reg.pc # "idle" /\ reg.log[1].existed
C4_SecondCallFails ==
    SecondCall =>
        /\ reg.pc \in {"indexer", "failed"}
        /\ Len(reg.log) = 1
        /\ reg.log[1].kind = "createOpenOrdersIndexer"
        /\ reg.result = <<>> /\ reg.openOrdersAccs = <<>>
        /\ <<indexers, ooAccounts>> = <<reg.before[1], reg.before[2]>>
        /\ fillCalls = 0 => book = reg.before[3]
C4_Witness ==
    /\ SecondCall /\ reg.pc = "failed" /\ reg.log[1].st = "refused"
    /\ Len(reg.markets) = 2 /\ ooAccounts # {}

\* C5: a configureMarketForUser call that succeeds for M markets returns M
\* handles, the i-th (0-based) naming markets[i].market_pk and the address
\* derived from ("OpenOrders", user, i+1 as four little-endian bytes); the
\* indices it used are 1..M in order.
C5_HandlesByPosition ==
    reg.pc = "done" =>
        LET M == Len(reg.markets)
            handles == reg.result[1]
        IN  /\ Len(handles) = M
            /\ \A i \in 0..(M - 1) :
                 /\ handles[i + 1].market = reg.markets[i + 1].market_pk
                 /\ handles[i + 1].open_orders =
                        <<"OpenOrders", publicKey(reg.user), <<i + 1, 0, 0, 0>> >>
                 /\ reg.log[i + 2].kind = "createOpenOrdersAccount"
                 /\ reg.log[i + 2].index = i + 1
            /\ Len(reg.log) = M + 1
C5_Witness ==
    /\ reg.pc = "done" /\ Len(reg.markets) = 2
    /\ reg.markets[1].market_index = 1

\* C10: a rejected placeOrder ends the fillOrderBook call: it is the last
\* submission of the call, so a rejected bid leaves no ask submitted, and
\* the orders accepted before it are on the ledger.
C10_RejectionAborts ==
    \A k \in DOMAIN fill.log :
        /\ Rejected(fill.log[k]) =>
             /\ k = Len(fill.log)
             /\ fill.pc = "failed"
             /\ fill.log[k].args.side = "bid" =>
                  \A a \in DOMAIN fill.log : fill.log[a].args.side # "ask"
        /\ fill.log[k].st = "ok" => BookedOrder(fill.log[k]) \in book
C10_Witness ==
    /\ fill.pc = "failed" /\ fill.nbOrders = 2 /\ Len(fill.log) = 2
    /\ fill.log[1].st = "ok" /\ Rejected(fill.log[2])
    /\ BookedOrder(fill.log[1]) \in book

\* C11: the create-market instruction is submitted only after both oracle
\* accounts of the market exist and this invocation's stubOracleSet for each
\* was confirmed, and after the asks, bids and event-heap accounts were
\* allocated; and a stubOracleSet is only ever submitted for an oracle
\* address that exists.
OkBefore(c, k, kind, addr) ==
    \E a \in 1..(k - 1) :
        c.log[a].kind = kind /\ c.log[a].target = addr /\ c.log[a].st = "ok"
C11_MarketAfterPrerequisites ==
    \A i \in Indices : \A k \in DOMAIN cm[i].log :
        LET c == cm[i]
            tx == c.log[k]
        IN  /\ tx.kind = "createMarket" =>
                 /\ \A a \in {oracleAId(c), oracleBId(c)} :
                      a \in DOMAIN oracles /\ OkBefore(c, k, "stubOracleSet", a)
                 /\ \A what \in {"asks", "bids", "eventHeap"} :
                      /\ createAccountAddress(c, what) \in storage
                      /\ OkBefore(c, k, "createAccount", createAccountAddress(c, what))
                 /\ {c.asks, c.bids, c.eventHeap} \subseteq storage
                 /\ Cardinality({c.asks, c.bids, c.eventHeap}) = 3
            /\ tx.kind = "stubOracleSet" => tx.target \in DOMAIN oracles
C11_Witness ==
    \E i \in Indices :
        /\ cm[i].pc = "market"
        /\ cm[i].log[Len(cm[i].log)].kind = "createMarket"
        /\ cm[i].log[Len(cm[i].log)].st = "pending"
        /\ cm[i].baseMint # cm[i].quoteMint
        /\ TxsOf(cm[i], "stubOracleCreate", oracleBId(cm[i])) = {}
        /\ TxsOf(cm[i], "stubOracleCreate", oracleAId(cm[i])) # {}

\* C12: at the step in which an invocation submits the create-market
\* instruction, and at the step in which it returns its descriptor d, both
\* oracle_a and oracle_b of d hold d.price on the ledger, also in a batch
\* of distinct mints whose invocations share the quote-mint oracle.
HoldsPrice(ledger, c) ==
    \A a \in {oracleAId(c), oracleBId(c)} :
        a \in DOMAIN ledger /\ ledger[a] = c.price
C12_OwnPriceAtCreation ==
    [][DistinctMints =>
         \A i \in Indices :
            /\ (cm[i].pc = "eventHeap" /\ cm'[i].pc = "market") =>
                   HoldsPrice(oracles', cm'[i])
            /\ (cm[i].pc = "market" /\ cm'[i].pc = "done") =>
                   /\ HoldsPrice(oracles', cm'[i])
                   /\ oracles'[cm'[i].result[1].oracle_b] = cm'[i].result[1].price]_vars

\* C13: an invocation whose base mint is its quote mint, running alone on a
\* ledger without that oracle: its two oracle addresses are one address a,
\* it submits exactly one stubOracleCreate and exactly two stubOracleSet for
\* a (the second existence check finds the account), in that order, and the
\* program refuses none of them.
Alone(i) == \A l \in Indices \ {i} : cm[l].log = <<>>
C13_SameMintOneCreate ==
    \A i \in Indices : (cm[i].baseMint = cm[i].quoteMint /\ Alone(i)) =>
        LET c == cm[i]
            a == oracleAId(c)
        IN  /\ oracleBId(c) = a
            /\ Cardinality(TxsOf(c, "stubOracleCreate", a)) <= 1
            /\ Cardinality(TxsOf(c, "stubOracleSet", a)) <= 2
            /\ \A k \in DOMAIN c.log : c.log[k].st # "refused"
            /\ Len(c.log) >= 4 =>
                 /\ TxsOf(c, "stubOracleCreate", a) = {1}
                 /\ TxsOf(c, "stubOracleSet", a) = {2, 3}
                 /\ \A k \in 1..3 : c.log[k].st = "ok"
            /\ c.pc = "done" => Len(c.log) >= 4
C13_Witness ==
    \E i \in Indices :
        /\ cm[i].baseMint = cm[i].quoteMint /\ Alone(i)
        /\ cm[i].pc = "done"
        /\ TxsOf(cm[i], "stubOracleSet", oracleBId(cm[i])) = {2, 3}

\* C14: in configureMarketForUser the createOpenOrdersIndexer transaction
\* comes first and is confirmed before any createOpenOrdersAccount is
\* submitted; the createOpenOrdersAccount transactions carry the account
\* indices 1, 2, ..., M in that order, each submitted only when all before
\* it are confirmed; a rejected one is the last submitted and the call
\* returns no handles.
C14_RegistrarInSequence ==
    reg.pc # "idle" =>
        LET log == reg.log IN
        /\ Len(log) >= 1 /\ Len(log) <= Len(reg.markets) + 1
        /\ log[1].kind = "createOpenOrdersIndexer"
        /\ \A k \in 2..Len(log) :
             /\ log[k].kind = "createOpenOrdersAccount"
             /\ log[k].index = k - 1
             /\ log[k].target =
                    OpenOrdersAddress(publicKey(reg.user), toBufferLE4(k - 1))
             /\ \A a \in 1..(k - 1) : log[a].st = "ok"
        /\ \A k \in DOMAIN log :
             Rejected(log[k]) =>
                 k = Len(log) /\ reg.pc = "failed" /\ reg.result = <<>>
        /\ reg.pc = "failed" => reg.result = <<>> /\ Rejected(log[Len(log)])
        /\ reg.result # <<>> => reg.pc = "done" /\ Len(log) = Len(reg.markets) + 1
C14_Witness ==
    /\ reg.pc = "failed" /\ Len(reg.markets) = 2
    /\ Len(reg.log) = 2 /\ reg.log[1].st = "ok" /\ Rejected(reg.log[2])
    /\ reg.result = <<>>

\* C15: within one invocation of createMarket, configureMarketForUser or
\* fillOrderBook at most one transaction is in flight: if a transaction of
\* its log is pending it is the last, and a transaction is submitted (the
\* log grows, by one entry) only when every earlier one is confirmed.
OneInFlight(log) ==
    \A k \in DOMAIN log :
        /\ log[k].st = "pending" => k = Len(log)
        /\ k < Len(log) => log[k].st = "ok"
SubmitsOneAfterConfirmation(log, log2) ==
    Len(log2) > Len(log) =>
        /\ Len(log2) = Len(log) + 1
        /\ \A k \in DOMAIN log : log2[k].st = "ok"
        /\ log2[Len(log2)].st = "pending"
C15_OneInFlight ==
    /\ [](/\ \A i \in Indices : OneInFlight(cm[i].log)
          /\ OneInFlight(reg.log)
          /\ OneInFlight(fill.log))
    /\ [][/\ \A i \in Indices :
               i \in DOMAIN cm' => SubmitsOneAfterConfirmation(cm[i].log, cm'[i].log)
          /\ reg'.user = reg.user /\ Len(reg.log) >= 1 =>
               SubmitsOneAfterConfirmation(reg.log, reg'.log)
          /\ fill.pc # "idle" =>
               SubmitsOneAfterConfirmation(fill.log, fill'.log)]_vars
C15_Witness ==
    /\ fill.pc = "ask" /\ Len(fill.log) = 4
    /\ fill.log[4].st = "pending"
    /\ \A k \in 1..3 : fill.log[k].st = "ok"
    /\ Len(reg.log) = 3 /\ \A k \in 1..3 : reg.log[k].st = "ok"

\* C16: the handles a registrar call returns name its markets in list order,
\* and fillOrderBook takes the handle at position market_index of
\* user.open_orders without looking at its market. When user.open_orders
\* comes from a registrar call with the batch's full list in returned order,
\* the handle named in every placeOrder is the filled market's. Otherwise
\* nothing detects the mismatch: a handle found at that position is named
\* in every placeOrder whatever its market, and the call fails only when a
\* submission is rejected; when there is none at that position the call
\* submits nothing.
MarketsOf(open_orders) == [k \in DOMAIN open_orders |-> open_orders[k].market]
FullListInOrder(open_orders) ==
    MarketsOf(open_orders) = [k \in DOMAIN batchResult |-> batchResult[k].market_pk]
Position(marketData) == marketData.market_index + 1
C16_LookupByMarketIndex ==
    /\ reg.pc = "done" =>
          /\ userOO[reg.user[2]] = reg.result[1]
          /\ MarketsOf(reg.result[1]) =
                 [k \in DOMAIN reg.markets |-> reg.markets[k].market_pk]
    /\ fill.pc # "idle" =>
          LET oo == fill.open_orders
              p == Position(fill.marketData)
          IN  /\ FullListInOrder(oo) =>
                    /\ p \in DOMAIN oo
                    /\ oo[p].market = fill.marketData.market_pk
              /\ \A k \in DOMAIN fill.log :
                    /\ p \in DOMAIN oo
                    /\ fill.log[k].openOrdersAccount = oo[p].open_orders
                    /\ fill.log[k].target = fill.marketData.market_pk
              /\ (p \in DOMAIN oo /\ fill.nbOrders > 0) =>
                    /\ Len(fill.log) >= 1
                    /\ fill.pc = "failed" => Rejected(fill.log[Len(fill.log)])
              /\ p \notin DOMAIN oo =>
                    /\ fill.log = <<>>
                    /\ fill.pc = IF fill.nbOrders > 0 THEN "failed" ELSE "done"
C16_Witness ==
    /\ fill.pc = "bid" /\ Len(fill.log) = 1 /\ fill.log[1].st = "pending"
    /\ ~FullListInOrder(fill.open_orders)
    /\ Position(fill.marketData) \in DOMAIN fill.open_orders
    /\ fill.open_orders[Position(fill.marketData)].market # fill.marketData.market_pk
    /\ fill.log[1].openOrdersAccount =
           fill.open_orders[Position(fill.marketData)].open_orders
C16_WitnessInOrder ==
    /\ fill.pc = "done" /\ Len(fill.log) = 4
    /\ Len(batchResult) = 2 /\ FullListInOrder(fill.open_orders)
    /\ fill.marketData.market_index = 1
C16_WitnessNone ==
    /\ fill.pc = "failed" /\ fill.log = <<>>
    /\ Len(fill.open_orders) = 1 /\ fill.marketData.market_index = 1

\* C17: within one fillOrderBook call with order count N the client order
\* ids of its submissions are pairwise distinct, the bids' ids lie in
\* 0..N-1 and the asks' in N+1..2N, the id N is never used, and a call that
\* ends without rejection has used exactly 0..N-1 for its bids and exactly
\* N+1..2N for its asks.
IdsOf(log, side) ==
    {log[k].args.clientOrderId : k \in {j \in DOMAIN log : log[j].args.side = side}}
C17_ClientIdsDistinct ==
    LET n == fill.nbOrders
        log == fill.log
    IN  /\ \A a, b \in DOMAIN log :
              a # b => log[a].args.clientOrderId # log[b].args.clientOrderId
        /\ IdsOf(log, "bid") \subseteq 0..(n - 1)
        /\ IdsOf(log, "ask") \subseteq (n + 1)..(2 * n)
        /\ IdsOf(log, "bid") \cap IdsOf(log, "ask") = {}
        /\ \A k \in DOMAIN log : log[k].args.clientOrderId # n
        /\ fill.pc = "done" =>
              /\ Len(log) = 2 * n
              /\ IdsOf(log, "bid") = 0..(n - 1)
              /\ IdsOf(log, "ask") = (n + 1)..(2 * n)
C17_Witness ==
    /\ fill.pc = "done" /\ fill.nbOrders = 2
    /\ IdsOf(fill.log, "bid") = {0, 1}
    /\ IdsOf(fill.log, "ask") = {3, 4}

\* C18: when one createMarket invocation of a batch is rejected,
\* configureOpenbookV2 is rejected, stays so and returns no descriptor,
\* whatever the other invocations return; the rejection leaves the other
\* invocations as they are, and each of them that has not ended can still
\* take its next step, so that accounts and markets are created after the
\* batch has failed.
Ended(pc) == pc \in {"done", "failed"}
C18_NoCancellation ==
    /\ [](/\ (\E i \in Indices : cm[i].pc = "failed") => bpc = "rejected"
          /\ bpc = "rejected" => batchResult = <<>>
          /\ \A i \in Indices : ~Ended(cm[i].pc) => ENABLED Step(i))
    /\ [][/\ bpc = "rejected" => bpc' = "rejected" /\ batchResult' = <<>>
          /\ \A i \in Indices :
               (cm[i].pc # "failed" /\ cm'[i].pc = "failed") =>
                   \A j \in Indices \ {i} : cm'[j] = cm[j]]_vars
C18_Witness ==
    /\ bpc = "rejected" /\ batchResult = <<>>
    /\ \E i, j \in Indices :
         /\ cm[j].pc = "failed" /\ j \in cm[i].startedAfter
         /\ cm[i].pc = "done" /\ cm[i].result # <<>>
         /\ MarketAccounts(cm[i]) \in markets
         /\ {cm[i].asks, cm[i].bids, cm[i].eventHeap} \subseteq storage

\* C19: when every submitted transaction and every existence query is
\* answered, every createMarket invocation ends (returns a descriptor or
\* fails), configureOpenbookV2 resolves or rejects, and every fillOrderBook
\* call ends; configureOpenbookV2 is resolved exactly when all invocations of
\* its batch have returned a descriptor, and it resolves in the step in
\* which the last of them returns; a fillOrderBook call with count N makes
\* at most 2N submissions.
Quiet ==
    /\ \A i \in Indices : Ended(cm[i].pc)
    /\ bpc # "running"
    /\ fill.pc \notin {"bid", "ask"}
Returned(c) == \A j \in DOMAIN c : c[j].pc = "done" /\ c[j].result # <<>>
C19_Termination ==
    /\ []<>Quiet
    /\ [](/\ bpc = "resolved" => Returned(cm) /\ Len(batchResult) = BatchSize
          /\ (bpc # "idle" /\ Returned(cm)) => bpc = "resolved"
          /\ bpc = "rejected" => \E i \in Indices : cm[i].pc = "failed"
          /\ Len(fill.log) <= 2 * fill.nbOrders
          /\ fill.pc = "done" =>
                Len(fill.log) = IF Position(fill.marketData) \in DOMAIN fill.open_orders
                                  THEN 2 * fill.nbOrders ELSE 0)
    /\ [][/\ (bpc = "running" /\ bpc' = "resolved") =>
               \E i \in Indices : cm[i].pc = "market" /\ cm'[i].pc = "done"
          /\ Len(fill'.log) <= Len(fill.log) + 1]_vars
C19_Witness ==
    /\ Quiet
    /\ fill.pc = "done" /\ fill.nbOrders = 2 /\ Len(fill.log) = 4
    /\ Len(batchResult) = 2
====
